---------------------------- MODULE Spec2Model ----------------------------
(***************************************************************************)
(* Nova Dynamics bot server: the tenant registry, the CORS guard, the KB   *)
(* cache, the lexical ranker and the /chat route with its remote fallback, *)
(* in both server variants (src/index.js and the server part of            *)
(* src/new-client.js).                                                     *)
(*                                                                         *)
(* Representation.                                                         *)
(*   - a slug or raw client name is a sequence of one-character strings;   *)
(*   - a text (message, KB question/answer, reply) is a sequence of words; *)
(*     the empty text <<>> is the empty string;                            *)
(*   - an origin is an opaque string, "" when the header is absent;        *)
(*   - a JSON value is a record tagged by its JavaScript type.             *)
(***************************************************************************)
EXTENDS Integers, Sequences, FiniteSets, TLC

(***************************************************************************)
(* JavaScript values as they come out of JSON.parse                        *)
(***************************************************************************)
Undefined == [t |-> "undefined"]
Null      == [t |-> "null"]
Str(s)    == [t |-> "string", v |-> s]
Num(n)    == [t |-> "number", v |-> n]
Bool(b)   == [t |-> "boolean", v |-> b]
Arr(xs)   == [t |-> "array", v |-> xs]
Obj(f)    == [t |-> "object", v |-> f]

\* ToBoolean
Truthy(x) ==
  CASE x.t = "undefined" -> FALSE
    [] x.t = "null"      -> FALSE
    [] x.t = "string"    -> x.v # <<>>
    [] x.t = "number"    -> x.v # 0
    [] x.t = "boolean"   -> x.v
    [] OTHER             -> TRUE

\* item.name : a property of a non-object primitive or of an array is
\* undefined for the names the code reads (q, a, title, text)
Get(x, name) ==
  IF x.t = "object" /\ name \in DOMAIN x.v THEN x.v[name] ELSE Undefined

\* Number.prototype.toString for the numbers of the model
NumText(n) == IF n = 0 THEN <<"0">> ELSE <<"5">>

\* String(x); an array is its elements joined by ","
\* (null and undefined elements give the empty string)
RECURSIVE ToText(_)
RECURSIVE JoinText(_)
JoinText(xs) ==
  IF xs = <<>> THEN <<>>
  ELSE LET h == IF Head(xs).t \in {"undefined", "null"} THEN <<>>
                ELSE ToText(Head(xs))
       IN IF Len(xs) = 1 THEN h ELSE h \o <<",">> \o JoinText(Tail(xs))
ToText(x) ==
  CASE x.t = "undefined" -> <<"undefined">>
    [] x.t = "null"      -> <<"null">>
    [] x.t = "string"    -> x.v
    [] x.t = "number"    -> NumText(x.v)
    [] x.t = "boolean"   -> IF x.v THEN <<"true">> ELSE <<"false">>
    [] x.t = "array"     -> JoinText(x.v)
    [] OTHER             -> <<"[object", "Object]">>

(***************************************************************************)
(* Slugs                                                                   *)
(***************************************************************************)
SlugChars ==
  {"a","b","c","d","e","f","g","h","i","j","k","l","m","n","o","p","q","r",
   "s","t","u","v","w","x","y","z","0","1","2","3","4","5","6","7","8","9","-"}

\* String.prototype.toLowerCase on one character
LowerChar(c) ==
  CASE c = "A" -> "a" [] c = "C" -> "c" [] c = "D" -> "d" [] c = "E" -> "e"
    [] c = "M" -> "m" [] c = "O" -> "o" [] OTHER -> c

safeSlug(s) ==
  LET lower == [i \in 1..Len(s) |-> LowerChar(s[i])]
  IN SelectSeq(lower, LAMBDA c : c \in SlugChars)

DEMO        == <<"d","e","m","o">>
ACME        == <<"a","c","m","e">>
GHOST       == <<"g","h","o","s","t">>
CONSTRUCTOR == <<"c","o","n","s","t","r","u","c","t","o","r">>

(***************************************************************************)
(* Registry: a plain object slug -> { name, origins }                      *)
(***************************************************************************)
Cfg(origins) == [kind |-> "cfg", origins |-> origins]

\* the only property of Object.prototype whose name survives safeSlug
ObjectPrototypeKeys == {CONSTRUCTOR}
ObjectPrototypeValue == [kind |-> "function", origins |-> {}]
NoCfg == [kind |-> "undefined", origins |-> {}]

\* REGISTRY[client] on a plain object: own property, else the prototype's
RegistryGet(reg, client) ==
  IF client \in DOMAIN reg THEN reg[client]
  ELSE IF client \in ObjectPrototypeKeys THEN ObjectPrototypeValue
  ELSE NoCfg

\* (cfg.origins || [])
OriginsOf(cfg) == cfg.origins

FALLBACK_ALLOWED ==
  {"https://prismatic-taffy-e96ac7.netlify.app", "https://nova-dynamics.no",
   "https://www.nova-dynamics.no", "http://localhost:8888"}

\* the fallback allowlist exists in src/index.js only
Fallback(variant) == IF variant = "index" THEN FALLBACK_ALLOWED ELSE {}

\* isAllowedOrigin with a fault: the origin is looked up under every tenant,
\* not under the client
isAllowedOriginAnyTenant(variant, reg, client, origin) ==
  origin \in Fallback(variant)
  \/ \E c \in DOMAIN reg : origin \in OriginsOf(reg[c])

isAllowedOrigin(variant, reg, client, origin) ==
  IF origin \in Fallback(variant) THEN TRUE
  ELSE LET cfg == RegistryGet(reg, client)
       IN IF cfg.kind = "undefined" THEN FALSE
          ELSE origin \in OriginsOf(cfg)

\* isKnownOrigin with a fault: the loop returns after the first tenant
isKnownOriginFirstTenantOnly(variant, reg, origin) ==
  origin \in Fallback(variant)
  \/ (DEMO \in DOMAIN reg /\ origin \in OriginsOf(reg[DEMO]))

isKnownOrigin(variant, reg, origin) ==
  IF origin \in Fallback(variant) THEN TRUE
  ELSE \E c \in DOMAIN reg : origin \in OriginsOf(reg[c])


(***************************************************************************)
(* KB files, normalisation and the 60 s cache                              *)
(***************************************************************************)
\* a file on disk: unreadable / not JSON, or the parsed JSON value
NoFile == [ok |-> FALSE, val |-> Null]
File(v) == [ok |-> TRUE, val |-> v]

\* the file at clients/<client>/kb.json: a slug without directory has none
FileOf(files, client) == IF client \in DOMAIN files THEN files[client] ELSE NoFile

\* readJSON(filePath, fallback = [])
readJSON(file) == IF file.ok THEN file.val ELSE Arr(<<>>)

\* the callback of raw.map in normalizeKB; null stands for a dropped record
normalizeItem(item) ==
  IF Truthy(item) /\ Truthy(Get(item, "q")) /\ Truthy(Get(item, "a"))
    THEN Obj([q |-> Str(ToText(Get(item, "q"))), a |-> Str(ToText(Get(item, "a")))])
  ELSE IF Truthy(item) /\ Truthy(Get(item, "title")) /\ Truthy(Get(item, "text"))
    THEN Obj([q |-> Str(ToText(Get(item, "title"))),
              a |-> Str(ToText(Get(item, "text")))])
  ELSE Null

\* normalizeKB(raw): (raw || []).map(...).filter(Boolean).  A truthy raw that
\* is not an array has no map method: the call throws a TypeError.
normalizeKB(raw) ==
  IF ~Truthy(raw) THEN [threw |-> FALSE, kb |-> <<>>]
  ELSE IF raw.t # "array" THEN [threw |-> TRUE, kb |-> <<>>]
  ELSE LET mapped == [i \in 1..Len(raw.v) |-> normalizeItem(raw.v[i])]
       IN [threw |-> FALSE, kb |-> SelectSeq(mapped, Truthy)]

TTL == 60000

\* Map.prototype.set
MapSet(m, k, v) == [x \in (DOMAIN m) \cup {k} |-> IF x = k THEN v ELSE m[x]]

\* hit && (now - hit.ts) < 60_000, for an existing entry
Fresh(hit, now) == (now - hit.ts) < TTL

\* getKB with a fault: the cache has one slot (demo's), whatever the client is
getKBOneSlot(cache, files, client, now) ==
  IF DEMO \in DOMAIN cache /\ Fresh(cache[DEMO], now)
    THEN [threw |-> FALSE, kb |-> cache[DEMO].kb, cache |-> cache, read |-> FALSE]
  ELSE LET n == normalizeKB(readJSON(FileOf(files, client)))
       IN IF n.threw
            THEN [threw |-> TRUE, kb |-> <<>>, cache |-> cache, read |-> TRUE]
          ELSE [threw |-> FALSE, kb |-> n.kb,
                cache |-> MapSet(cache, DEMO, [ts |-> now, kb |-> n.kb]),
                read |-> TRUE]

\* getKB(client): the sequence returned (or the throw), the cache afterwards,
\* and whether the KB file was read
getKB(cache, files, client, now) ==
  IF client \in DOMAIN cache /\ Fresh(cache[client], now)
    THEN [threw |-> FALSE, kb |-> cache[client].kb, cache |-> cache, read |-> FALSE]
  ELSE LET n == normalizeKB(readJSON(FileOf(files, client)))
       IN IF n.threw
            THEN [threw |-> TRUE, kb |-> <<>>, cache |-> cache, read |-> TRUE]
          ELSE [threw |-> FALSE, kb |-> n.kb,
                cache |-> MapSet(cache, client, [ts |-> now, kb |-> n.kb]),
                read |-> TRUE]

(***************************************************************************)
(* Ranker                                                                  *)
(***************************************************************************)
\* the ASCII stop words (the three with non-ASCII letters are left out: no
\* word of the model contains such a letter)
STOP == {"og","er","en","et","to","and","the","i","vi","som","for","med",
         "til","du","jeg","we","you","of","a","an","det","de","at"}

\* one word through toLowerCase and the replacement of every character
\* outside [\w\s-] (and the listed letters) by a blank: the tokens it leaves
WordTokens(w) ==
  CASE w = "Opening" -> <<"opening">>
    [] w = "Hours"   -> <<"hours">>
    [] w = "hours?"  -> <<"hours">>
    [] w = "The"     -> <<"the">>
    [] w = "Support" -> <<"support">>
    [] w = "Mon-Fri" -> <<"mon-fri">>
    [] w = "?"       -> <<>>
    [] w = ","       -> <<>>
    [] w = "[object" -> <<"object">>
    [] w = "Object]" -> <<"object">>
    [] OTHER         -> <<w>>

RECURSIVE SplitWords(_)
SplitWords(s) ==
  IF s = <<>> THEN <<>> ELSE WordTokens(Head(s)) \o SplitWords(Tail(s))

\* tok (src/index.js) / tokenize (src/new-client.js)
tok(s) == SelectSeq(SplitWords(s), LAMBDA w : w \notin STOP)

Includes(seq, x) == \E i \in 1..Len(seq) : seq[i] = x

RECURSIVE scoreLoop(_, _, _)
scoreLoop(tq, ta, qTokens) ==
  IF qTokens = <<>> THEN 0
  ELSE (IF Includes(tq, Head(qTokens)) THEN 2 ELSE 0)
       + (IF Includes(ta, Head(qTokens)) THEN 1 ELSE 0)
       + scoreLoop(tq, ta, Tail(qTokens))

scoreEntry(entry, qTokens) ==
  scoreLoop(tok(Get(entry, "q").v), tok(Get(entry, "a").v), qTokens)

\* the sort with a fault: the comparator is a._score - b._score (ascending)
RECURSIVE InsertSortedAscending(_, _)
InsertSortedAscending(sorted, x) ==
  IF sorted = <<>> THEN <<x>>
  ELSE IF Head(sorted).score <= x.score
         THEN <<Head(sorted)>> \o InsertSortedAscending(Tail(sorted), x)
       ELSE <<x>> \o sorted

\* the sort with a fault: descending, but an entry goes before the earlier
\* entries of the same score (not stable)
RECURSIVE InsertSortedUnstable(_, _)
InsertSortedUnstable(sorted, x) ==
  IF sorted = <<>> THEN <<x>>
  ELSE IF Head(sorted).score > x.score
         THEN <<Head(sorted)>> \o InsertSortedUnstable(Tail(sorted), x)
       ELSE <<x>> \o sorted

\* Array.prototype.sort((a,b) => b._score - a._score): stable, descending
RECURSIVE InsertSorted(_, _)
InsertSorted(sorted, x) ==
  IF sorted = <<>> THEN <<x>>
  ELSE IF Head(sorted).score >= x.score
         THEN <<Head(sorted)>> \o InsertSorted(Tail(sorted), x)
       ELSE <<x>> \o sorted

RECURSIVE SortByScore(_)
SortByScore(xs) ==
  IF xs = <<>> THEN <<>>
  ELSE InsertSorted(SortByScore(SubSeq(xs, 1, Len(xs) - 1)), xs[Len(xs)])

rankFAQ(question, kb) ==
  LET qTok == tok(question)
  IN SortByScore([i \in 1..Len(kb) |->
        [q |-> Get(kb[i], "q").v, a |-> Get(kb[i], "a").v,
         score |-> scoreEntry(kb[i], qTok)]])


(***************************************************************************)
(* Remote completion provider                                              *)
(***************************************************************************)
\* what one fetch of the completions URL can do: answer with a status and a
\* body, fail on the network, or be aborted by the 15 s timer
Response(status, content) ==
  [kind |-> "response", status |-> status, content |-> content]
NetworkError == [kind |-> "network-error", status |-> 0, content |-> Undefined]
Aborted      == [kind |-> "abort", status |-> 0, content |-> Undefined]

ModelAnswer == <<"model", "answer">>

\* in a completion text the word " " is a run of white space
Blank == " "

\* the completion: a text, a text with white space around it, white space
\* only, the empty text, or no text at all
ProviderOutcomes ==
  { Response(200, Str(ModelAnswer)),
    Response(200, Str(<<Blank>> \o ModelAnswer \o <<Blank>>)),
    Response(200, Str(<<Blank>>)), Response(200, Str(<<>>)),
    Response(200, Undefined),
    Response(400, Undefined), Response(500, Undefined),
    NetworkError, Aborted }

\* fetchJSON: try { await fetch ... return {ok, status, data} } finally
\* { clearTimeout }: there is no catch, a rejected fetch is rethrown
fetchJSON(o) ==
  IF o.kind = "response"
    THEN [threw |-> FALSE, ok |-> (o.status >= 200 /\ o.status <= 299),
          status |-> o.status, content |-> o.content]
  ELSE [threw |-> TRUE, ok |-> FALSE, status |-> 0, content |-> Undefined]

\* if (!resp.ok || resp.status >= 500)
ShouldRetry(resp) == ~resp.ok \/ resp.status >= 500

\* the request sent to the provider; url, credential and model are
\* process-wide constants, the rest comes from the handler's locals
Payload(client, kb, message) ==
  [url |-> "https://api.openai.com/v1/chat/completions",
   system |-> client, context |-> kb, user |-> message]

(***************************************************************************)
(* Fixed replies                                                           *)
(***************************************************************************)
ReplyUnknownClient    == <<"Unknown", "client.">>
ReplyOriginNotAllowed == <<"Origin", "not", "allowed", "for", "this", "client.">>
ReplyKeyMissing       == <<"API-nokkel", "mangler", "pa", "serveren.">>
ReplyUpstreamFailure  == <<"Beklager", "midlertidig", "problem", "med", "AI-svaret.">>
ReplyNoAnswer         == <<"Beklager", "jeg", "fikk", "ikke", "generert", "et", "svar.">>


(***************************************************************************)
(* Inputs of the model                                                     *)
(***************************************************************************)
OriginDemo     == "https://demo.example"
OriginAcme     == "https://acme.example"
OriginFallback == "https://nova-dynamics.no"

\* "" is a request without Origin header (req.headers.origin || "")
Origins == {"", OriginDemo, OriginAcme, OriginFallback}

\* clients.json: unreadable, or an object slug -> config.  acme is as
\* new-client.js writes it (its own origin plus the default origins), demo is
\* written by hand.
RegistryDemo == (DEMO :> Cfg({OriginDemo}))
RegistryBoth == (DEMO :> Cfg({OriginDemo}))
                @@ (ACME :> Cfg({OriginAcme, OriginFallback}))
RegistryFiles == {NoFile, File(RegistryDemo), File(RegistryBoth)}

\* kb.json of a tenant
KBOpening == Arr(<< Obj([q |-> Str(<<"Opening", "hours">>), a |-> Str(<<"Mon-Fri", "09-17">>)]),
                    Obj([title |-> Str(<<"Support", "email">>),
                         text |-> Str(<<"support", "mail">>)]) >>)
KBMixed   == Arr(<< Obj([q |-> Arr(<<>>), a |-> Str(<<"hours">>)]),
                    Num(5),
                    Obj([q |-> Str(<<"Opening", "Hours">>), a |-> Str(<<"Weekend">>)]) >>)
KBObject  == Obj([faq |-> Arr(<<>>)])
KBLong    == Arr(<< Obj([q |-> Str(<<"Support", "email">>), a |-> Str(<<"support", "mail">>)]),
                    Obj([title |-> Str(<<"Opening", "hours">>),
                         text |-> Str(<<"Mon-Fri", "09-17">>)]),
                    Obj([q |-> Str(<<"Hours">>), a |-> Str(<<"Weekend">>)]),
                    Obj([q |-> Str(<<"Opening", "Hours">>), a |-> Str(<<"Weekend">>)]) >>)
KBFiles   == {NoFile, File(KBOpening), File(KBMixed), File(KBObject)}

\* the kb.json files at the start
StartFiles ==
  { (DEMO :> File(KBOpening)) @@ (ACME :> NoFile),
    (DEMO :> File(KBObject)) @@ (ACME :> File(KBMixed)),
    (DEMO :> File(KBLong)) @@ (ACME :> NoFile) }

\* the slugs that have a clients/<slug>/ directory
KBSlugs == {DEMO, ACME}

\* (body.client, query.client) of a request; <<>> is an absent field
ClientInputs ==
  { [body |-> <<"A","c","m","e","!">>, query |-> <<>>],
    [body |-> DEMO, query |-> <<>>],
    [body |-> GHOST, query |-> <<>>],
    [body |-> CONSTRUCTOR, query |-> <<>>],
    [body |-> <<>>, query |-> <<>>],
    [body |-> <<>>, query |-> ACME] }

\* every message of the model is shorter than the 2000 characters slice keeps
Messages == { <<"Opening", "hours?">>, <<"The", "?">> }

PostInputs ==
  { [method |-> "POST", origin |-> o, body |-> c.body, query |-> c.query,
     message |-> m] : o \in Origins, c \in ClientInputs, m \in Messages }

\* a preflight carries no body
OptionsInputs ==
  { [method |-> "OPTIONS", origin |-> o, body |-> <<>>, query |-> q,
     message |-> <<>>] : o \in Origins, q \in {<<>>, ACME} }

Inputs == PostInputs \cup OptionsInputs

Reqs == {"r1"}

\* ticks of half a TTL
MaxTicks == 2
ClockStep == TTL \div 2

(***************************************************************************)
(* State                                                                   *)
(***************************************************************************)
VARIABLES
  variant,     \* "index" (src/index.js) or "newclient" (src/new-client.js)
  OPENAI_KEY,  \* TRUE iff process.env.OPENAI_API_KEY is set
  REGISTRY,    \* the registry object in memory
  kbCache,     \* Map client -> [ts, kb]
  kbFiles,     \* the kb.json files on disk
  now,         \* Date.now()
  up,          \* the process is running
  req,         \* the requests: inputs, position and response
  fn           \* a call of a pure function on its own: input and results

vars == <<variant, OPENAI_KEY, REGISTRY, kbCache, kbFiles, now, up, req, fn>>

NoHeaders == [allowOrigin |-> "", allowHeaders |-> "", allowMethods |-> ""]

\* allowCORS(res, origin)
allowCORS(origin) ==
  [allowOrigin |-> origin, allowHeaders |-> "Content-Type, Authorization",
   allowMethods |-> "GET, POST, OPTIONS"]

NoInput == [method |-> "", origin |-> "", body |-> <<>>, query |-> <<>>,
            message |-> <<>>]

\* kbCache.get(client), for the record of a request: undefined, or the entry
NoEntry == [present |-> FALSE, ts |-> 0, kb |-> <<>>]
EntryOf(cache, client) ==
  IF client \in DOMAIN cache
    THEN [present |-> TRUE, ts |-> cache[client].ts, kb |-> cache[client].kb]
  ELSE NoEntry

\* a request: its inputs (in), the registry and the time it saw (reg, at),
\* the locals of its handler (client, kb), its response (cors, status, reply,
\* unsure, suggestions) and what it did: KB file reads, cache writes, the
\* cache entry of its client before and after its getKB call and the file
\* then on disk, the payloads sent to the provider, the provider's outcomes,
\* the usage records handed to logUsage and what became of the append
\* (logged: "none", "pending", "written" or "failed"), and the number of
\* responses sent for it
Idle ==
  [pc |-> "idle", in |-> NoInput, reg |-> <<>>, at |-> 0, client |-> <<>>,
   cors |-> NoHeaders, status |-> 0, reply |-> <<>>, unsure |-> FALSE,
   suggestions |-> <<>>, gotKB |-> FALSE, kb |-> <<>>, kbReads |-> 0,
   kbWrites |-> 0, attempts |-> <<>>, outcomes |-> <<>>, usage |-> <<>>,
   calledKB |-> FALSE, entryBefore |-> NoEntry, entryAfter |-> NoEntry,
   file |-> NoFile, logged |-> "none", responses |-> 0]

\* no pure function is being called on its own
NoCall == [pc |-> "none", raw |-> Null, once |-> <<>>, twice |-> <<>>,
           threw |-> FALSE, question |-> <<>>, kb |-> <<>>, ranked |-> <<>>]

\* try { REGISTRY = JSON.parse(readFileSync) } catch { REGISTRY = {} }
ParseRegistry(file) == IF file.ok THEN file.val ELSE <<>>

Init ==
  /\ variant \in {"index", "newclient"}
  /\ OPENAI_KEY \in BOOLEAN
  /\ \E f \in RegistryFiles : REGISTRY = ParseRegistry(f)
  /\ kbCache = <<>>
  /\ kbFiles \in StartFiles
  /\ now = 0
  /\ up = TRUE
  /\ req = [r \in Reqs |-> Idle]
  /\ fn = NoCall


(***************************************************************************)
(* The CORS middleware                                                     *)
(***************************************************************************)
\* rawClient = body.client || query.client || ""
GuardClient(in) == safeSlug(IF in.body # <<>> THEN in.body ELSE in.query)

\* GuardGrants with a fault: a regular request is granted like a preflight
GuardGrantsKnownAnywhere(v, reg, in) ==
  in.origin # "" /\ isKnownOrigin(v, reg, in.origin)

\* whether the middleware calls allowCORS for a non-preflight request.
\* src/index.js:      origin && isAllowedOrigin(client, origin)
\* src/new-client.js: origin, then client && isAllowedOrigin(client, origin)
GuardGrants(v, reg, in) ==
  IF v = "index"
    THEN in.origin # "" /\ isAllowedOrigin(v, reg, GuardClient(in), in.origin)
  ELSE in.origin # "" /\ GuardClient(in) # <<>>
       /\ isAllowedOrigin(v, reg, GuardClient(in), in.origin)

\* the headers the middleware leaves on the response
Middleware(v, reg, in) ==
  IF in.method = "OPTIONS"
    THEN IF isKnownOrigin(v, reg, in.origin) THEN allowCORS(in.origin) ELSE NoHeaders
  ELSE IF GuardGrants(v, reg, in) THEN allowCORS(in.origin) ELSE NoHeaders

(***************************************************************************)
(* The /chat route                                                         *)
(***************************************************************************)
\* client = safeSlug(req.body?.client || "demo")
RouteClient(in) == safeSlug(IF in.body # <<>> THEN in.body ELSE DEMO)

UsageRecord(t, client, origin, kind, message, reply) ==
  [ts |-> t, client |-> client, origin |-> origin, kind |-> kind,
   in |-> Len(message), out |-> Len(reply)]

\* logUsage with a fault: the row is not handed to fs.appendFile
logUsageDropped(usage, row) == usage

\* logUsage(row): fs.appendFile(chat.jsonl, JSON.stringify(row) + "\n", () => {}),
\* on the rows the request has logged so far
logUsage(usage, row) == Append(usage, row)

\* xs.slice(from - 1, to).map(x => x.q), positions counted from 1
Questions(xs, from, to) ==
  [i \in 1..(IF Len(xs) < to THEN (IF Len(xs) < from THEN 0 ELSE Len(xs) - from + 1)
             ELSE to - from + 1) |-> xs[from + i - 1].q]

KBQuestions(kb) ==
  Questions([i \in 1..Len(kb) |-> [q |-> Get(kb[i], "q").v]], 1, 3)

\* !REGISTRY[client] is false: the lookup gives a truthy value
TenantCheck(reg, client) == RegistryGet(reg, client).kind # "undefined"

\* the key test with a fault: the key is taken to be set
KeyMissingNever(key) == FALSE

\* if (!OPENAI_KEY)
KeyMissing(key) == ~key

\* top && top._score > 0
HasHit(ranked) == ranked # <<>> /\ ranked[1].score > 0

\* the route from its entry to its first await (or to its response): the
\* fields of the request it sets, and the cache it leaves
ChatSync(v, key, reg, cache, files, t, in) ==
  LET client == RouteClient(in)
      base == [Idle EXCEPT !.client = client]
  IN
  IF ~TenantCheck(reg, client)
    THEN [r |-> [base EXCEPT !.pc = "done", !.status = 400, !.responses = @ + 1,
                             !.reply = ReplyUnknownClient, !.unsure = TRUE],
          cache |-> cache]
  ELSE IF in.origin # "" /\ ~isAllowedOrigin(v, reg, client, in.origin)
    THEN [r |-> [base EXCEPT !.pc = "done", !.status = 403, !.responses = @ + 1,
                             !.reply = ReplyOriginNotAllowed, !.unsure = TRUE],
          cache |-> cache]
  ELSE
    LET g == getKB(cache, files, client, t)
        got == [base EXCEPT !.gotKB = ~g.threw, !.kb = g.kb,
                            !.calledKB = TRUE,
                            !.entryBefore = EntryOf(cache, client),
                            !.entryAfter = EntryOf(g.cache, client),
                            !.file = FileOf(files, client),
                            !.kbReads = IF g.read THEN 1 ELSE 0,
                            !.kbWrites = IF g.read /\ ~g.threw THEN 1 ELSE 0]
        ranked == rankFAQ(in.message, g.kb)
    IN
    IF g.threw THEN [r |-> [got EXCEPT !.pc = "threw"], cache |-> g.cache]
    ELSE IF HasHit(ranked)
      THEN [r |-> [got EXCEPT !.pc = "done", !.status = 200, !.responses = @ + 1,
                     !.reply = ranked[1].a, !.unsure = FALSE,
                     !.suggestions = Questions(ranked, 2, 4),
                     !.usage = logUsage(@, UsageRecord(t, client, in.origin, "kb",
                                                       in.message, ranked[1].a)),
                     !.logged = "pending"],
            cache |-> g.cache]
    ELSE IF KeyMissing(key)
      THEN [r |-> [got EXCEPT !.pc = "done", !.status = 500, !.responses = @ + 1,
                     !.reply = ReplyKeyMissing, !.unsure = TRUE],
            cache |-> g.cache]
    ELSE [r |-> [got EXCEPT !.pc = "await1",
                   !.attempts = <<Payload(client, g.kb, in.message)>>],
          cache |-> g.cache]

\* what becomes of a handler whose promise rejects: Express 4 leaves the
\* rejection unhandled, which ends the process (Node 15 and later) or leaves
\* the request without a response; Express 5 answers 500
RejectionFates == {"crash", "hang", "500"}

Rejected(r, fate) ==
  [r EXCEPT !.pc = "threw", !.status = IF fate = "500" THEN 500 ELSE 0,
            !.responses = IF fate = "500" THEN @ + 1 ELSE @]


\* String.prototype.trim
RECURSIVE TrimStart(_)
TrimStart(s) ==
  IF s # <<>> /\ Head(s) = Blank THEN TrimStart(Tail(s)) ELSE s

RECURSIVE TrimEnd(_)
TrimEnd(s) ==
  IF s # <<>> /\ s[Len(s)] = Blank THEN TrimEnd(SubSeq(s, 1, Len(s) - 1)) ELSE s

Trim(s) == TrimEnd(TrimStart(s))

\* ContentText with a fault: the text is not trimmed
ContentTextUntrimmed(content) ==
  IF content.t \in {"undefined", "null"} THEN Undefined ELSE Str(content.v)

\* data?.choices?.[0]?.message?.content?.trim()
ContentText(content) ==
  IF content.t \in {"undefined", "null"} THEN Undefined ELSE Str(Trim(content.v))

\* the rest of the route once the last attempt has answered
Finish(r, resp, t) ==
  IF ~resp.ok
    THEN [r EXCEPT !.pc = "done", !.status = 502, !.responses = @ + 1,
                   !.reply = ReplyUpstreamFailure, !.unsure = TRUE]
  ELSE LET text == ContentText(resp.content)
           reply == IF Truthy(text) THEN text.v ELSE ReplyNoAnswer
       IN [r EXCEPT !.pc = "done", !.status = 200, !.responses = @ + 1,
                    !.reply = reply,
                    !.unsure = TRUE, !.suggestions = KBQuestions(r.kb),
                    !.usage = logUsage(@, UsageRecord(t, r.client, r.in.origin,
                                                      "llm", r.in.message, reply)),
                    !.logged = "pending"]

(***************************************************************************)
(* Actions                                                                 *)
(***************************************************************************)
\* a request arrives: the CORS middleware, then (unless it is a preflight)
\* the route up to its response or to its first await
Receive(r, inputs) ==
  /\ up
  /\ req[r].pc = "idle"
  /\ \E in \in inputs :
       LET cors == Middleware(variant, REGISTRY, in)
           c == ChatSync(variant, OPENAI_KEY, REGISTRY, kbCache, kbFiles, now, in)
           seen == [c.r EXCEPT !.in = in, !.reg = REGISTRY, !.at = now, !.cors = cors]
       IN IF in.method = "OPTIONS"
            THEN /\ req' = [req EXCEPT ![r] =
                       [Idle EXCEPT !.pc = "done", !.in = in, !.reg = REGISTRY,
                                    !.at = now, !.cors = cors, !.status = 204,
                                    !.responses = 1]]
                 /\ UNCHANGED <<kbCache, up>>
          ELSE /\ kbCache' = c.cache
               /\ IF c.r.pc = "threw"
                    THEN \E fate \in RejectionFates :
                           /\ req' = [req EXCEPT ![r] = Rejected(seen, fate)]
                           /\ up' = (fate # "crash")
                  ELSE /\ req' = [req EXCEPT ![r] = seen]
                       /\ UNCHANGED up
  /\ UNCHANGED <<variant, OPENAI_KEY, REGISTRY, kbFiles, now, fn>>

\* FirstAttemptEnds with a fault: the retry is built from the cache entry of
\* the moment, not from the handler's kb
FirstAttemptEndsRefetch(r) ==
  /\ up
  /\ req[r].pc = "await1"
  /\ \E o \in ProviderOutcomes :
       LET resp == fetchJSON(o)
           cur == [req[r] EXCEPT !.outcomes = Append(@, o)]
       IN /\ ~resp.threw
          /\ UNCHANGED up
          /\ IF ShouldRetry(resp)
               THEN req' = [req EXCEPT ![r] =
                      [cur EXCEPT !.pc = "await2",
                         !.attempts = Append(@, Payload(cur.client,
                                                        EntryOf(kbCache, cur.client).kb,
                                                        cur.in.message))]]
             ELSE req' = [req EXCEPT ![r] = Finish(cur, resp, now)]
  /\ UNCHANGED <<variant, OPENAI_KEY, REGISTRY, kbCache, kbFiles, now, fn>>

\* the first completion attempt ends: retry, or finish
FirstAttemptEnds(r) ==
  /\ up
  /\ req[r].pc = "await1"
  /\ \E o \in ProviderOutcomes :
       LET resp == fetchJSON(o)
           cur == [req[r] EXCEPT !.outcomes = Append(@, o)]
       IN IF resp.threw
            THEN \E fate \in RejectionFates :
                   /\ req' = [req EXCEPT ![r] = Rejected(cur, fate)]
                   /\ up' = (fate # "crash")
          ELSE /\ UNCHANGED up
               /\ IF ShouldRetry(resp)
                    THEN req' = [req EXCEPT ![r] =
                           [cur EXCEPT !.pc = "await2",
                              !.attempts = Append(@, Payload(cur.client, cur.kb,
                                                             cur.in.message))]]
                  ELSE req' = [req EXCEPT ![r] = Finish(cur, resp, now)]
  /\ UNCHANGED <<variant, OPENAI_KEY, REGISTRY, kbCache, kbFiles, now, fn>>

\* RetryEnds with a fault: a failed retry is retried again
RetryEndsLoop(r) ==
  /\ up
  /\ req[r].pc = "await2"
  /\ \E o \in ProviderOutcomes :
       LET resp == fetchJSON(o)
           cur == [req[r] EXCEPT !.outcomes = Append(@, o)]
       IN /\ ~resp.threw
          /\ UNCHANGED up
          /\ IF ShouldRetry(resp)
               THEN req' = [req EXCEPT ![r] =
                      [cur EXCEPT !.attempts = Append(@, Payload(cur.client, cur.kb,
                                                                 cur.in.message))]]
             ELSE req' = [req EXCEPT ![r] = Finish(cur, resp, now)]
  /\ UNCHANGED <<variant, OPENAI_KEY, REGISTRY, kbCache, kbFiles, now, fn>>

\* the retry ends
RetryEnds(r) ==
  /\ up
  /\ req[r].pc = "await2"
  /\ \E o \in ProviderOutcomes :
       LET resp == fetchJSON(o)
           cur == [req[r] EXCEPT !.outcomes = Append(@, o)]
       IN IF resp.threw
            THEN \E fate \in RejectionFates :
                   /\ req' = [req EXCEPT ![r] = Rejected(cur, fate)]
                   /\ up' = (fate # "crash")
          ELSE /\ UNCHANGED up
               /\ req' = [req EXCEPT ![r] = Finish(cur, resp, now)]
  /\ UNCHANGED <<variant, OPENAI_KEY, REGISTRY, kbCache, kbFiles, now, fn>>

\* the append of the usage row ends, with or without an error; the callback
\* () => {} ignores the error
AppendFileEnds(r) ==
  /\ up
  /\ req[r].logged = "pending"
  /\ \E err \in BOOLEAN :
       req' = [req EXCEPT ![r].logged = IF err THEN "failed" ELSE "written"]
  /\ UNCHANGED <<variant, OPENAI_KEY, REGISTRY, kbCache, kbFiles, now, up, fn>>

\* the handler has returned (or its promise has settled): the request leaves
\* the state, and its slot can take the next request
Close(r) ==
  /\ up
  /\ req[r].pc \in {"done", "threw"}
  /\ req' = [req EXCEPT ![r] = Idle]
  /\ UNCHANGED <<variant, OPENAI_KEY, REGISTRY, kbCache, kbFiles, now, up, fn>>

\* fs.watchFile callback: clients.json changed, read it again
loadRegistry ==
  /\ up
  /\ \E f \in RegistryFiles :
       /\ REGISTRY' = ParseRegistry(f)
       /\ REGISTRY' # REGISTRY
  /\ UNCHANGED <<variant, OPENAI_KEY, kbCache, kbFiles, now, up, req, fn>>

\* somebody edits a tenant's kb.json
WriteKBFile(slugs) ==
  /\ \E t \in slugs, f \in KBFiles :
       /\ f # kbFiles[t]
       /\ kbFiles' = [kbFiles EXCEPT ![t] = f]
  /\ UNCHANGED <<variant, OPENAI_KEY, REGISTRY, kbCache, now, up, req, fn>>

\* time passes
Tick ==
  /\ now + ClockStep <= MaxTicks * ClockStep
  /\ now' = now + ClockStep
  /\ UNCHANGED <<variant, OPENAI_KEY, REGISTRY, kbCache, kbFiles, up, req, fn>>

(***************************************************************************)
(* Spec: the guard and the route over every request of the model, with     *)
(* registry reloads; the kb.json files are as chosen at the start and the  *)
(* clock stands still.                                                     *)
(***************************************************************************)
Next ==
  \/ \E r \in Reqs : Receive(r, Inputs)
  \/ \E r \in Reqs : FirstAttemptEnds(r)
  \/ \E r \in Reqs : RetryEnds(r)
  \/ \E r \in Reqs : AppendFileEnds(r)
  \/ \E r \in Reqs : Close(r)
  \/ loadRegistry

Spec == Init /\ [][Next]_vars

(***************************************************************************)
(* SpecKB: the KB store under a moving clock and a changing demo/kb.json,  *)
(* for requests that reach getKB (no Origin header, a registered tenant).  *)
(***************************************************************************)
KBInputs ==
  { [method |-> "POST", origin |-> "", body |-> b, query |-> <<>>, message |-> m] :
      b \in {DEMO, <<"A","c","m","e","!">>}, m \in Messages }

InitKB ==
  /\ Init
  /\ REGISTRY = RegistryBoth

NextKB ==
  \/ \E r \in Reqs : Receive(r, KBInputs)
  \/ \E r \in Reqs : FirstAttemptEnds(r)
  \/ \E r \in Reqs : RetryEnds(r)
  \/ \E r \in Reqs : Close(r)
  \/ WriteKBFile({DEMO})
  \/ Tick

SpecKB == InitKB /\ [][NextKB]_vars

(***************************************************************************)
(* SpecNormalize: normalizeKB on its own, applied once and then again to   *)
(* its own result, over every raw array of at most MaxRawLen records.      *)
(***************************************************************************)
MaxRawLen == 2

\* values of a record's field; Undefined is an absent field
FieldValues ==
  { Undefined, Null, Str(<<>>), Str(<<"hours">>), Num(0), Num(5), Bool(TRUE),
    Arr(<<>>), Arr(<<Str(<<"hours">>)>>), Obj(<<>>) }

RawItems ==
  { Obj([q |-> x, a |-> y]) : x, y \in FieldValues }
  \cup { Obj([title |-> x, text |-> y]) : x, y \in {Undefined, Str(<<"hours">>), Arr(<<>>)} }
  \cup { Obj([q |-> x, a |-> Str(<<"hours">>), title |-> Str(<<"Opening">>), text |-> y]) :
           x, y \in {Str(<<>>), Str(<<"hours">>)} }
  \cup { Null, Num(5), Str(<<"hours">>), Arr(<<>>) }

RECURSIVE SeqsUpTo(_, _)
SeqsUpTo(S, n) ==
  IF n = 0 THEN {<<>>}
  ELSE LET shorter == SeqsUpTo(S, n - 1)
       IN shorter \cup { Append(xs, x) : xs \in {ys \in shorter : Len(ys) = n - 1}, x \in S }

InitNormalize ==
  /\ variant = "index"
  /\ OPENAI_KEY = FALSE
  /\ REGISTRY = <<>>
  /\ kbCache = <<>>
  /\ kbFiles = (DEMO :> NoFile) @@ (ACME :> NoFile)
  /\ now = 0
  /\ up = TRUE
  /\ req = [r \in Reqs |-> Idle]
  /\ \E xs \in SeqsUpTo(RawItems, MaxRawLen) :
       fn = [NoCall EXCEPT !.pc = "raw", !.raw = Arr(xs)]

\* kb = normalizeKB(raw)
NormalizeOnce ==
  /\ fn.pc = "raw"
  /\ LET n == normalizeKB(fn.raw)
     IN fn' = [fn EXCEPT !.pc = "once", !.once = n.kb, !.threw = n.threw]
  /\ UNCHANGED <<variant, OPENAI_KEY, REGISTRY, kbCache, kbFiles, now, up, req>>

\* normalizeKB(kb)
NormalizeTwice ==
  /\ fn.pc = "once"
  /\ LET n == normalizeKB(Arr(fn.once))
     IN fn' = [fn EXCEPT !.pc = "twice", !.twice = n.kb, !.threw = n.threw]
  /\ UNCHANGED <<variant, OPENAI_KEY, REGISTRY, kbCache, kbFiles, now, up, req>>

NextNormalize == NormalizeOnce \/ NormalizeTwice

SpecNormalize == InitNormalize /\ [][NextNormalize]_vars

(***************************************************************************)
(* SpecRank: rankFAQ (and with it tok and scoreEntry) on its own, over     *)
(* every question of RankQuestions and every KB of at most MaxKBLen        *)
(* normalized records.                                                     *)
(***************************************************************************)
MaxKBLen == 3

\* questions: with a token twice ("hours", "Hours"), with a stop word, with
\* nothing but a stop word, empty
RankQuestions ==
  { <<"Opening", "hours?">>, <<"hours", "Hours">>, <<"The", "support", "hours?">>,
    <<"The", "?">>, <<>> }

\* normalized records; "Hours hours" has a token twice
RankEntries ==
  { Obj([q |-> Str(x), a |-> Str(y)]) :
      x \in { <<"Opening", "hours">>, <<"Hours", "hours">>, <<"Support", "email">> },
      y \in { <<"Mon-Fri", "09-17">>, <<"support", "hours">> } }

InitRank ==
  /\ variant = "index"
  /\ OPENAI_KEY = FALSE
  /\ REGISTRY = <<>>
  /\ kbCache = <<>>
  /\ kbFiles = (DEMO :> NoFile) @@ (ACME :> NoFile)
  /\ now = 0
  /\ up = TRUE
  /\ req = [r \in Reqs |-> Idle]
  /\ \E question \in RankQuestions, kb \in SeqsUpTo(RankEntries, MaxKBLen) :
       fn = [NoCall EXCEPT !.pc = "question", !.question = question, !.kb = kb]

\* ranked = rankFAQ(message, kb)
Rank ==
  /\ fn.pc = "question"
  /\ fn' = [fn EXCEPT !.pc = "ranked", !.ranked = rankFAQ(fn.question, fn.kb)]
  /\ UNCHANGED <<variant, OPENAI_KEY, REGISTRY, kbCache, kbFiles, now, up, req>>

NextRank == Rank

SpecRank == InitRank /\ [][NextRank]_vars

(***************************************************************************)
(* SpecConc (src/index.js): request r1 of tenant demo, with a message that  *)
(* always needs the fallback, and what can happen while it awaits the      *)
(* provider: clients.json is reloaded, demo/kb.json is edited, the clock   *)
(* moves, and a second request r2 of the same tenant arrives (and          *)
(* refreshes the cache entry between the attempts of r1).                  *)
(***************************************************************************)
Reqs2 == {"r1", "r2"}

\* a message without tokens: no KB entry scores above 0
FallbackInputs ==
  { [method |-> "POST", origin |-> "", body |-> DEMO, query |-> <<>>,
     message |-> <<"The", "?">>] }

OtherInputs ==
  { [method |-> "POST", origin |-> "", body |-> DEMO, query |-> <<>>,
     message |-> <<"Opening", "hours?">>] }

InitConc ==
  /\ variant = "index"
  /\ OPENAI_KEY = TRUE
  /\ REGISTRY = RegistryBoth
  /\ kbCache = <<>>
  /\ kbFiles \in StartFiles
  /\ now = 0
  /\ up = TRUE
  /\ req = [r \in Reqs2 |-> Idle]
  /\ fn = NoCall

\* r1 is suspended at one of its two awaits
Awaiting == req["r1"].pc \in {"await1", "await2"}

ReceiveOther == Awaiting /\ Receive("r2", OtherInputs)

ReloadWhileAwaiting == Awaiting /\ loadRegistry

EditWhileAwaiting == Awaiting /\ WriteKBFile({DEMO})

TickWhileAwaiting == Awaiting /\ Tick

NextConc ==
  \/ Receive("r1", FallbackInputs)
  \/ ReceiveOther
  \/ \E r \in Reqs2 : FirstAttemptEnds(r)
  \/ \E r \in Reqs2 : RetryEnds(r)
  \/ ReloadWhileAwaiting
  \/ EditWhileAwaiting
  \/ TickWhileAwaiting

SpecConc == InitConc /\ [][NextConc]_vars

(***************************************************************************)
(* Properties                                                              *)
(***************************************************************************)
\* request r has been received as a POST /chat
Posted(r) == req[r].pc # "idle" /\ req[r].in.method = "POST"

\* the origins registered for tenant t in registry reg
Registered(reg, t) == IF t \in DOMAIN reg THEN reg[t].origins ELSE {}

\* C1: a POST /chat whose normalized slug is not a tenant of the registry ends
\* with 400 and unsure=true, and reads no KB file, writes no cache entry,
\* calls no provider and records no usage.
C1_UnknownTenantRejected ==
  \A r \in Reqs :
    (Posted(r) /\ RouteClient(req[r].in) \notin DOMAIN req[r].reg) =>
      /\ req[r].pc = "done"
      /\ req[r].status = 400
      /\ req[r].unsure
      /\ req[r].kbReads = 0
      /\ req[r].kbWrites = 0
      /\ req[r].attempts = <<>>
      /\ req[r].usage = <<>>

\* C2 as stated: for a tenant of the registry, 403 exactly when the request
\* carries an Origin that is not in the tenant's own list; never 403 without
\* Origin; a 403 fetches no KB and calls no provider.
C2_ForbiddenIffNotInOwnList ==
  \A r \in Reqs :
    (Posted(r) /\ req[r].client \in DOMAIN req[r].reg) =>
      /\ (req[r].status = 403) <=>
           (req[r].in.origin # ""
            /\ req[r].in.origin \notin Registered(req[r].reg, req[r].client))
      /\ (req[r].status = 403) => (~req[r].calledKB /\ req[r].attempts = <<>>)

\* C2 amended: for a tenant of the registry, 403 exactly when the request
\* carries an Origin that is neither in the tenant's own list nor, in
\* src/index.js, in the fallback allowlist; never 403 without Origin; a 403
\* fetches no KB and calls no provider.
C2_ForbiddenIffNotAllowed ==
  \A r \in Reqs :
    (Posted(r) /\ req[r].client \in DOMAIN req[r].reg) =>
      /\ (req[r].status = 403) <=>
           (req[r].in.origin # ""
            /\ req[r].in.origin \notin Registered(req[r].reg, req[r].client)
            /\ ~(variant = "index" /\ req[r].in.origin \in FALLBACK_ALLOWED))
      /\ (req[r].status = 403) => (~req[r].calledKB /\ req[r].attempts = <<>>)

C2_Witness ==
  \E r \in Reqs :
    /\ Posted(r)
    /\ req[r].client \in DOMAIN req[r].reg
    /\ req[r].in.origin # ""
    /\ req[r].status = 403

\* C3 as stated: on a POST with Origin O naming tenant T the guard sets the
\* three cross-origin headers (echoing O) exactly when T is in the registry
\* and O is one of T's origins; without Origin it sets none.
C3_GrantIffInOwnList ==
  \A r \in Reqs :
    Posted(r) =>
      LET O == req[r].in.origin
          T == GuardClient(req[r].in)
      IN /\ req[r].cors \in {NoHeaders, allowCORS(O)}
         /\ (O = "") => req[r].cors = NoHeaders
         /\ (O # "") => ((req[r].cors = allowCORS(O)) <=> O \in Registered(req[r].reg, T))

\* C3 amended: ... exactly when O is one of T's registered origins or, in
\* src/index.js, O is in the fallback allowlist; without Origin it sets none.
C3_GrantIffAllowed ==
  \A r \in Reqs :
    Posted(r) =>
      LET O == req[r].in.origin
          T == GuardClient(req[r].in)
      IN /\ req[r].cors \in {NoHeaders, allowCORS(O)}
         /\ (O = "") => req[r].cors = NoHeaders
         /\ (O # "") => ((req[r].cors = allowCORS(O)) <=>
                           (O \in Registered(req[r].reg, T)
                            \/ (variant = "index" /\ O \in FALLBACK_ALLOWED)))

C3_Witness ==
  \E r \in Reqs :
    /\ Posted(r)
    /\ req[r].in.origin # ""
    /\ req[r].in.origin \notin FALLBACK_ALLOWED
    /\ req[r].cors = allowCORS(req[r].in.origin)

\* C4 as stated: a preflight with origin O gets the cross-origin headers
\* exactly when some tenant of the registry lists O; granted or not, it is
\* answered 204 by the guard and reaches neither the tenant validation, the
\* KB, the provider nor the usage log.
C4_PreflightIffListed ==
  \A r \in Reqs :
    (req[r].pc # "idle" /\ req[r].in.method = "OPTIONS") =>
      LET O == req[r].in.origin
      IN /\ req[r].cors \in {NoHeaders, allowCORS(O)}
         /\ (req[r].cors = allowCORS(O)) <=>
              (\E t \in DOMAIN req[r].reg : O \in Registered(req[r].reg, t))
         /\ req[r].pc = "done" /\ req[r].status = 204 /\ req[r].reply = <<>>
         /\ ~req[r].calledKB /\ req[r].kbReads = 0
         /\ req[r].attempts = <<>> /\ req[r].usage = <<>>

\* C4 amended: ... exactly when some tenant of the registry lists O or, in
\* src/index.js, O is in the fallback allowlist; granted or not, it is
\* answered 204 by the guard and reaches neither the tenant validation, the
\* KB, the provider nor the usage log.
C4_PreflightIffKnown ==
  \A r \in Reqs :
    (req[r].pc # "idle" /\ req[r].in.method = "OPTIONS") =>
      LET O == req[r].in.origin
      IN /\ req[r].cors \in {NoHeaders, allowCORS(O)}
         /\ (req[r].cors = allowCORS(O)) <=>
              ((\E t \in DOMAIN req[r].reg : O \in Registered(req[r].reg, t))
               \/ (variant = "index" /\ O \in FALLBACK_ALLOWED))
         /\ req[r].pc = "done" /\ req[r].status = 204 /\ req[r].reply = <<>>
         /\ ~req[r].calledKB /\ req[r].kbReads = 0
         /\ req[r].attempts = <<>> /\ req[r].usage = <<>>

C4_Witness ==
  \E r \in Reqs :
    /\ req[r].in.method = "OPTIONS"
    /\ req[r].status = 204
    /\ req[r].in.origin \notin FALLBACK_ALLOWED
    /\ req[r].cors = allowCORS(req[r].in.origin)
    /\ req[r].in.origin \notin Registered(req[r].reg, GuardClient(req[r].in))

\* the score of the i-th entry of r's KB for r's message
ScoreOf(r, i) == scoreEntry(req[r].kb[i], tok(req[r].in.message))

\* the i-th entry is the first of those with the highest score
IsTop(r, i) ==
  \A j \in 1..Len(req[r].kb) :
    /\ ScoreOf(r, j) <= ScoreOf(r, i)
    /\ (j < i) => ScoreOf(r, j) < ScoreOf(r, i)

\* C5: a request that has passed the validation and whose KB has an entry
\* scoring above 0 ends with 200, the answer of the top-ranked entry,
\* unsure=false and no provider call; the provider is called only for a
\* request whose KB has no entry scoring above 0.
C5_LocalAnswerWhenHit ==
  \A r \in Reqs :
    /\ (Posted(r) /\ req[r].gotKB
        /\ \E i \in 1..Len(req[r].kb) : ScoreOf(r, i) > 0) =>
          /\ req[r].pc = "done"
          /\ req[r].status = 200
          /\ ~req[r].unsure
          /\ req[r].attempts = <<>>
          /\ \E i \in 1..Len(req[r].kb) :
               IsTop(r, i) /\ req[r].reply = Get(req[r].kb[i], "a").v
    /\ (req[r].attempts # <<>>) =>
          /\ req[r].gotKB
          /\ \A i \in 1..Len(req[r].kb) : ScoreOf(r, i) = 0

C5_Witness ==
  \E r \in Reqs :
    /\ Posted(r) /\ req[r].gotKB
    /\ Len(req[r].kb) >= 2
    /\ ScoreOf(r, 1) > 0 /\ ScoreOf(r, 2) > ScoreOf(r, 1)
    /\ req[r].status = 200
    /\ req[r].reply = Get(req[r].kb[2], "a").v

\* an attempt that did not give a 2xx response
Failed(o) == o.kind # "response" \/ o.status < 200 \/ o.status > 299

\* C6: a first attempt answered 5xx is retried exactly once, one answered
\* with another failure status (400) is not retried, and a retry carries the
\* payload of the first attempt.
C6_RetryOn5xxOnly ==
  \A r \in Reqs :
    Len(req[r].outcomes) >= 1 =>
      LET o == req[r].outcomes[1]
      IN /\ (o.kind = "response" /\ o.status >= 500) => Len(req[r].attempts) = 2
         /\ (o.kind = "response" /\ o.status >= 400 /\ o.status < 500) =>
              Len(req[r].attempts) = 1
         /\ Len(req[r].attempts) = 2 => req[r].attempts[2] = req[r].attempts[1]

\* C7: a first attempt that fails on the network or is aborted by its timer
\* does not cancel the request: one retry is issued and the request goes on
\* to its 200 or 502.
C7_RetryAfterNetworkFailure ==
  \A r \in Reqs :
    (Len(req[r].outcomes) >= 1
     /\ req[r].outcomes[1].kind \in {"network-error", "abort"}) =>
      /\ up
      /\ req[r].pc \in {"await2", "done"}
      /\ Len(req[r].attempts) = 2
      /\ req[r].pc = "done" => req[r].status \in {200, 502}

\* C8: when the first attempt and its retry both fail, the request ends with
\* 502, unsure=true and the fixed failure reply.
C8_BothFail502 ==
  \A r \in Reqs :
    (Len(req[r].outcomes) = 2
     /\ Failed(req[r].outcomes[1]) /\ Failed(req[r].outcomes[2])) =>
      /\ req[r].pc = "done"
      /\ req[r].status = 502
      /\ req[r].unsure
      /\ req[r].reply = ReplyUpstreamFailure

\* C9: getKB returns the cached sequence without reading the file when the
\* client has an entry younger than 60 s; otherwise it reads the file,
\* replaces the entry with one stamped now and returns the sequence read.
C9_CacheContract ==
  \A r \in Reqs :
    (Posted(r) /\ req[r].calledKB) =>
      LET e == req[r].entryBefore
      IN IF e.present /\ req[r].at - e.ts < TTL
           THEN /\ req[r].gotKB
                /\ req[r].kb = e.kb
                /\ req[r].kbReads = 0
                /\ req[r].entryAfter = e
         ELSE /\ req[r].gotKB
              /\ req[r].kbReads = 1
              /\ req[r].entryAfter = [present |-> TRUE, ts |-> req[r].at, kb |-> req[r].kb]

\* C10: normalizeKB(normalizeKB(raw)) = normalizeKB(raw) for every raw array.
C10_NormalizeIdempotent ==
  fn.pc = "twice" => (~fn.threw /\ fn.twice = fn.once)

\* a normalized record: strings q and a
WellShaped(e) ==
  /\ e.t = "object"
  /\ DOMAIN e.v = {"q", "a"}
  /\ e.v["q"].t = "string"
  /\ e.v["a"].t = "string"

\* C11: getKB never throws: whatever the tenant's kb.json is (missing, not
\* JSON, or JSON that is not an array of well-shaped records), the handler
\* gets a sequence of normalized records, empty for a missing file, and the
\* request goes on (it is not ended by a rejection at the KB fetch).
C11_GetKBNeverRaises ==
  \A r \in Reqs :
    (Posted(r) /\ req[r].calledKB) =>
      /\ req[r].gotKB
      /\ \A i \in 1..Len(req[r].kb) : WellShaped(req[r].kb[i])
      /\ (req[r].kbReads = 1 /\ ~req[r].file.ok) => req[r].kb = <<>>
      /\ (req[r].pc = "threw") => req[r].attempts # <<>>


\* the tokens of a text as a set
TokenSet(s) == { tok(s)[i] : i \in 1..Len(tok(s)) }

\* C12: rankFAQ returns a permutation of the KB entries in non-increasing
\* score order, and entries of equal score keep their KB order.
C12_RankStablePermutation ==
  fn.pc = "ranked" =>
    /\ Len(fn.ranked) = Len(fn.kb)
    /\ \E p \in Permutations(1..Len(fn.kb)) :
         /\ \A i \in 1..Len(fn.kb) :
              /\ fn.ranked[i].q = Get(fn.kb[p[i]], "q").v
              /\ fn.ranked[i].a = Get(fn.kb[p[i]], "a").v
              /\ fn.ranked[i].score = scoreEntry(fn.kb[p[i]], tok(fn.question))
         /\ \A i, j \in 1..Len(fn.kb) :
              (i < j) =>
                /\ fn.ranked[i].score >= fn.ranked[j].score
                /\ (fn.ranked[i].score = fn.ranked[j].score) => p[i] < p[j]

C12_Witness ==
  /\ fn.pc = "ranked"
  /\ Len(fn.kb) = 3
  /\ fn.kb[1] # fn.kb[2]
  /\ scoreEntry(fn.kb[1], tok(fn.question)) = scoreEntry(fn.kb[2], tok(fn.question))
  /\ scoreEntry(fn.kb[3], tok(fn.question)) > scoreEntry(fn.kb[1], tok(fn.question))
  /\ fn.ranked[1].q = Get(fn.kb[3], "q").v
  /\ fn.ranked[2].q = Get(fn.kb[1], "q").v
  /\ fn.ranked[3].q = Get(fn.kb[2], "q").v

\* the response of a request as the caller sees it
ResponseOf(x) ==
  [status |-> x.status, reply |-> x.reply, unsure |-> x.unsure,
   suggestions |-> x.suggestions]

\* a request answered from the KB has logged one row of kind "kb", one
\* answered by the provider one row of kind "llm", and none has logged two
C13_OneRecord ==
  \A r \in Reqs :
    /\ Len(req[r].usage) <= 1
    /\ (Posted(r) /\ req[r].pc = "done" /\ req[r].status = 200) =>
         /\ Len(req[r].usage) = 1
         /\ req[r].usage[1].kind = IF req[r].attempts = <<>> THEN "kb" ELSE "llm"
         /\ req[r].usage[1].client = req[r].client
         /\ req[r].usage[1].origin = req[r].in.origin
         /\ req[r].usage[1].out = Len(req[r].reply)

\* the end of the append, failed or not, leaves the response and the process
\* as they were
C13_AppendKeepsResponse ==
  \A r \in Reqs :
    (req[r].logged = "pending" /\ req'[r].logged \in {"written", "failed"}) =>
      /\ ResponseOf(req'[r]) = ResponseOf(req[r])
      /\ req'[r].pc = req[r].pc
      /\ up' = up

C14_AtMostTwoAttempts ==
  \A r \in Reqs :
    /\ Len(req[r].attempts) <= 2
    /\ Len(req[r].outcomes) <= Len(req[r].attempts)
    /\ (req[r].pc = "done" /\ req[r].attempts # <<>>) =>
         Len(req[r].outcomes) = Len(req[r].attempts)

C14_Witness ==
  \E r \in Reqs :
    /\ req[r].pc = "done"
    /\ Len(req[r].attempts) = 2
    /\ Len(req[r].outcomes) = 2
    /\ Failed(req[r].outcomes[2])

\* C15: the score of an entry is 2 x (number of distinct query tokens among
\* the tokens of its question) + 1 x (number of distinct query tokens among
\* the tokens of its answer): a token that occurs several times, in the
\* query or in the entry, counts once.
C15_ScoreBySetMembership ==
  fn.pc = "ranked" =>
    \A i \in 1..Len(fn.ranked) :
      fn.ranked[i].score =
        2 * Cardinality(TokenSet(fn.question) \cap TokenSet(fn.ranked[i].q))
        + Cardinality(TokenSet(fn.question) \cap TokenSet(fn.ranked[i].a))

\* C16: without the credential, a request that has its KB and finds no entry
\* scoring above 0 ends with 500, unsure=true and the fixed reply, sends no
\* completion request and leaves the process running; a request whose KB has
\* an entry scoring above 0 is answered from the KB as with the credential.
C16_KeyMissing500 ==
  \A r \in Reqs :
    (~OPENAI_KEY /\ Posted(r) /\ req[r].gotKB) =>
      IF \A i \in 1..Len(req[r].kb) : ScoreOf(r, i) = 0
        THEN /\ req[r].pc = "done"
             /\ req[r].status = 500
             /\ req[r].unsure
             /\ req[r].reply = ReplyKeyMissing
             /\ req[r].attempts = <<>>
             /\ req[r].outcomes = <<>>
             /\ up
      ELSE /\ req[r].pc = "done"
           /\ req[r].status = 200
           /\ ~req[r].unsure
           /\ \E i \in 1..Len(req[r].kb) :
                IsTop(r, i) /\ req[r].reply = Get(req[r].kb[i], "a").v

C16_Witness ==
  \E r \in Reqs :
    /\ ~OPENAI_KEY
    /\ Posted(r) /\ req[r].gotKB
    /\ Len(req[r].kb) > 0
    /\ req[r].status = 500
    /\ req[r].reply = ReplyKeyMissing

\* the last completion attempt of r succeeded, and the route has answered
Succeeded(r) ==
  /\ req[r].pc = "done"
  /\ req[r].outcomes # <<>>
  /\ ~Failed(req[r].outcomes[Len(req[r].outcomes)])

\* the completion text of r's last attempt (undefined when there is none)
LastContent(r) == req[r].outcomes[Len(req[r].outcomes)].content

\* the questions of the first min(3, |kb|) entries of r's KB, in KB order
FirstQuestions(r) ==
  [i \in 1..(IF Len(req[r].kb) < 3 THEN Len(req[r].kb) ELSE 3) |->
     Get(req[r].kb[i], "q").v]

Blanks(n) == [k \in 1..n |-> Blank]

\* t is s without the white space at its ends
IsTrimmed(t, s) ==
  /\ t = <<>> \/ (t[1] # Blank /\ t[Len(t)] # Blank)
  /\ \E i, j \in 0..Len(s) : s = Blanks(i) \o t \o Blanks(j)

\* C17 as stated: after a successful completion the request ends with 200
\* and unsure=true, the reply is the provider's completion text, or the
\* fixed message when that text is missing or empty, and the suggestions
\* are the questions of the first min(3, |KB|) KB entries in KB order.
C17_ReplyIsCompletionText ==
  \A r \in Reqs :
    Succeeded(r) =>
      /\ req[r].status = 200
      /\ req[r].unsure
      /\ req[r].reply =
           IF LastContent(r).t = "string" /\ LastContent(r).v # <<>>
             THEN LastContent(r).v
           ELSE ReplyNoAnswer
      /\ req[r].suggestions = FirstQuestions(r)

\* C17 amended: ... the reply is the provider's completion text without the
\* white space at its ends, or the fixed message when that text is missing,
\* empty or white space only ...
C17_ReplyIsTrimmedText ==
  \A r \in Reqs :
    Succeeded(r) =>
      /\ req[r].status = 200
      /\ req[r].unsure
      /\ IF /\ LastContent(r).t = "string"
            /\ \E k \in 1..Len(LastContent(r).v) : LastContent(r).v[k] # Blank
           THEN req[r].reply # <<>> /\ IsTrimmed(req[r].reply, LastContent(r).v)
         ELSE req[r].reply = ReplyNoAnswer
      /\ req[r].suggestions = FirstQuestions(r)

C17_Witness ==
  \E r \in Reqs :
    /\ Succeeded(r)
    /\ LastContent(r) = Str(<<Blank>> \o ModelAnswer \o <<Blank>>)
    /\ req[r].reply = ModelAnswer
    /\ Len(req[r].kb) = 4
    /\ Len(req[r].suggestions) = 3

\* C18: loadRegistry never throws; a load that cannot read or parse
\* clients.json leaves the empty registry, whatever was there before, and the
\* registry in memory is always the whole content of one file or empty;
\* every POST /chat handled under the empty registry is rejected with 400.
C18_EmptyRegistryRejectsAll ==
  /\ REGISTRY \in { ParseRegistry(f) : f \in RegistryFiles }
  /\ ParseRegistry(NoFile) = <<>>
  /\ \A r \in Reqs :
       (Posted(r) /\ req[r].reg = <<>>) =>
         /\ req[r].pc = "done"
         /\ req[r].status = 400
         /\ req[r].reply = ReplyUnknownClient

\* the records a well-formed kb.json file gives, stated on the file itself
RecordsOf(file) ==
  IF file.ok /\ file.val.t = "array"
    THEN SelectSeq([i \in 1..Len(file.val.v) |-> normalizeItem(file.val.v[i])], Truthy)
  ELSE <<>>

\* the cache is keyed by slug, and acme's entry (acme's kb.json never
\* changes here) holds the records of acme's own file
C19_OwnEntries ==
  /\ DOMAIN kbCache \subseteq KBSlugs
  /\ (ACME \in DOMAIN kbCache) => kbCache[ACME].kb = RecordsOf(kbFiles[ACME])
  /\ \A r \in Reqs :
       (Posted(r) /\ req[r].gotKB /\ req[r].client = ACME) =>
         req[r].kb = RecordsOf(kbFiles[ACME])

\* a request for tenant T leaves the entries of the other tenants as they
\* were, and what it gets is T's cached sequence or the records of T's file
C19_OnlyOwnEntryTouched ==
  \A r \in Reqs :
    (req[r].pc = "idle" /\ req'[r].pc # "idle") =>
      LET T == RouteClient(req'[r].in)
      IN /\ DOMAIN kbCache' \subseteq (DOMAIN kbCache) \cup {T}
         /\ \A c \in (DOMAIN kbCache) \ {T} :
              c \in DOMAIN kbCache' /\ kbCache'[c] = kbCache[c]
         /\ req'[r].gotKB =>
              IF req'[r].kbReads = 1
                THEN /\ req'[r].kb = RecordsOf(FileOf(kbFiles, T))
                     /\ kbCache'[T] = [ts |-> now, kb |-> req'[r].kb]
              ELSE /\ T \in DOMAIN kbCache
                   /\ req'[r].kb = kbCache[T].kb
                   /\ kbCache' = kbCache

\* C19: getKB(T) reads and replaces only the cache entry of T: the cache has
\* one entry per slug, the entries of the other tenants are unchanged by
\* getKB(T), and the sequence returned for T comes from T's own kb.json.
C19_TenantIsolation ==
  []C19_OwnEntries /\ [][C19_OnlyOwnEntryTouched]_vars

C19_Witness ==
  \E r \in Reqs :
    /\ Posted(r) /\ req[r].gotKB
    /\ req[r].client = ACME
    /\ req[r].kbReads = 1
    /\ req[r].entryBefore.present
    /\ DEMO \in DOMAIN kbCache
    /\ kbCache[DEMO].ts < kbCache[ACME].ts
    /\ kbCache[DEMO].kb # kbCache[ACME].kb

\* C20: the guard and the route decide on the same tenant: a POST /chat with
\* an Origin header gets the cross-origin headers exactly when the route does
\* not reject it with 400 or 403, also when the body names no client.
C20_GuardAgreesWithRoute ==
  \A r \in Reqs :
    (Posted(r) /\ req[r].in.origin # "") =>
      ((req[r].cors = allowCORS(req[r].in.origin)) <=>
         ~(req[r].pc = "done" /\ req[r].status \in {400, 403}))

\* C21: whatever the provider does, a POST /chat is answered exactly once,
\* with a status in {200, 400, 403, 500, 502}: no request is answered twice,
\* and once its handler has ended (returned, or its promise settled) the
\* request has its response and the process is still serving.
C21_AnsweredExactlyOnce ==
  \A r \in Reqs :
    Posted(r) =>
      /\ req[r].responses <= 1
      /\ (req[r].responses = 1) => req[r].status \in {200, 400, 403, 500, 502}
      /\ (req[r].pc \in {"done", "threw"}) => (req[r].responses = 1 /\ up)

\* every attempt of a request carries the KB the request got before its
\* first attempt, and its end and its suggestions follow from that KB and
\* from the provider's answers alone, whatever the registry and the cache
\* have become
C22_CapturedValuesUsed ==
  \A r \in Reqs2 :
    (req[r].attempts # <<>>) =>
      /\ req[r].gotKB
      /\ TenantCheck(req[r].reg, req[r].client)
      /\ \A i \in 1..Len(req[r].attempts) :
           req[r].attempts[i] =
             Payload(RouteClient(req[r].in), req[r].kb, req[r].in.message)
      /\ (req[r].pc = "done") =>
           IF Failed(req[r].outcomes[Len(req[r].outcomes)])
             THEN req[r].status = 502 /\ req[r].suggestions = <<>>
           ELSE req[r].status = 200 /\ req[r].suggestions = FirstQuestions(r)

\* a step of a request that has started the remote call writes neither the
\* registry nor the KB cache, and keeps the request's KB, tenant and earlier
\* attempts; a step of anything else leaves them to the request as well
C22_NoWriteAfterAwait ==
  \A r \in Reqs2 :
    (req[r].pc \in {"await1", "await2"}) =>
      /\ req'[r].kb = req[r].kb
      /\ req'[r].client = req[r].client
      /\ req'[r].reg = req[r].reg
      /\ SubSeq(req'[r].attempts, 1, Len(req[r].attempts)) = req[r].attempts
      /\ (req'[r] # req[r]) =>
           /\ REGISTRY' = REGISTRY
           /\ kbCache' = kbCache
           /\ kbFiles' = kbFiles

\* C22: a request takes its KB and its authorization once, before the first
\* completion attempt: a registry reload or a refresh of the cache entry by
\* another request while it awaits the provider changes neither its retry
\* payload, nor its suggestions, nor its outcome, and after its first
\* attempt has started the request writes neither the registry nor the cache.
C22_IsolatedFromInterleaving ==
  []C22_CapturedValuesUsed /\ [][C22_NoWriteAfterAwait]_vars

C22_Witness ==
  /\ req["r1"].pc = "done"
  /\ req["r1"].status = 200
  /\ Len(req["r1"].attempts) = 2
  /\ req["r1"].suggestions # <<>>
  /\ REGISTRY = <<>>
  /\ req["r2"].pc = "done" /\ req["r2"].kbWrites = 1
  /\ DEMO \in DOMAIN kbCache
  /\ kbCache[DEMO].kb # req["r1"].kb
=============================================================================
